---- MODULE Spec2Model ----
(***************************************************************************)
(* A model of slidev_converter.py: the deck extractor                      *)
(* (parse_powerpoint_slide / extract_from_powerpoint), the plain-markup    *)
(* extractor (parse_google_doc_content), the renderer                      *)
(* (convert_slide_to_markdown), the header generator                       *)
(* (generate_frontmatter), the document assembler                          *)
(* (convert_powerpoint_to_slidev) and the batch driver                     *)
(* (MCPSlidevConverter.batch_convert_powerpoints).                         *)
(*                                                                         *)
(* Text is a sequence of tokens.  A token is a one-character string, or,   *)
(* for the fixed markup of the templates and for formatted numbers, one    *)
(* string standing for that run of characters.  "\n" is the line break.    *)
(***************************************************************************)
EXTENDS Integers, Sequences, FiniteSets, TLC

\* ------------------------------------------------------------------ bounds
MaxShapes == 2      \* shapes on a slide handed to parse_powerpoint_slide alone
MaxSlideNum == 1    \* largest ordinal handed to parse_powerpoint_slide alone
MaxSlides == 2      \* slides of a deck in the conversion pipeline
MaxDecks == 3       \* *.pptx files found by the batch driver
MaxLines == 4       \* lines of a plain-markup document
MaxItems == 2       \* content entries of a slide handed to the renderer alone

\* ------------------------------------------------------------ str methods
\* str.isspace, for the characters of the model's alphabet
IsSpace(c) == c \in {" ", "\n", "\t"}

RECURSIVE LStrip(_)
\* str.lstrip()
LStrip(s) == IF s # <<>> /\ IsSpace(Head(s)) THEN LStrip(Tail(s)) ELSE s

RECURSIVE RStrip(_)
\* str.rstrip()
RStrip(s) ==
    IF s # <<>> /\ IsSpace(s[Len(s)]) THEN RStrip(SubSeq(s, 1, Len(s) - 1)) ELSE s

\* str.strip()
Strip(s) == RStrip(LStrip(s))

RECURSIVE SplitOn(_, _, _)
\* str.split(sep) for a one-character sep: the segments between the
\* separators, empty ones included; cur is the segment being read
SplitOn(s, sep, cur) ==
    IF s = <<>> THEN <<cur>>
    ELSE IF Head(s) = sep THEN <<cur>> \o SplitOn(Tail(s), sep, <<>>)
    ELSE SplitOn(Tail(s), sep, Append(cur, Head(s)))

RECURSIVE SplitWs(_, _)
\* str.split() without argument: the maximal runs of non-whitespace
SplitWs(s, cur) ==
    IF s = <<>> THEN (IF cur = <<>> THEN <<>> ELSE <<cur>>)
    ELSE IF IsSpace(Head(s))
         THEN (IF cur = <<>> THEN <<>> ELSE <<cur>>) \o SplitWs(Tail(s), <<>>)
    ELSE SplitWs(Tail(s), Append(cur, Head(s)))

RECURSIVE Join(_, _)
\* sep.join(parts)
Join(parts, sep) ==
    IF parts = <<>> THEN <<>>
    ELSE IF Len(parts) = 1 THEN parts[1]
    ELSE parts[1] \o sep \o Join(Tail(parts), sep)

RECURSIVE Replace(_, _, _)
\* str.replace(old, new) for a one-character old
Replace(s, old, new) ==
    IF s = <<>> THEN <<>>
    ELSE (IF Head(s) = old THEN new ELSE <<Head(s)>>) \o Replace(Tail(s), old, new)

\* str.startswith(prefix)
StartsWith(s, prefix) ==
    Len(s) >= Len(prefix) /\ SubSeq(s, 1, Len(prefix)) = prefix

\* text.replace('<', '&lt;').replace('>', '&gt;')
Escape(s) ==
    Replace(Replace(s, "<", <<"&", "l", "t", ";">>), ">", <<"&", "g", "t", ";">>)

\* f"slide_{slide_num + 1}_image_{len(images) + 1}.png"
ImageFilename(slide_num, n_images) ==
    <<"slide_", ToString(slide_num + 1), "_image_", ToString(n_images + 1), ".png">>

\* --------------------------------------------------- the deck, as pptx shows it
\* A shape of slide.shapes, by what the extractor asks of it:
\*   kind "picture":   the shape has an image property.  image is what reading
\*                     shape.image does ("ok", or "ValueError": python-pptx
\*                     raises it for a picture with no embedded image); blob is
\*                     what reading shape.image.blob does ("ok" or "raises")
\*   kind "textframe": the shape has a text_frame with these paragraphs
\*   kind "text":      the shape has a text attribute and no text_frame
\*   kind "other":     the shape has none of image, text_frame, text
Shape(kind, image, blob, paragraphs, text) ==
    [kind |-> kind, image |-> image, blob |-> blob,
     paragraphs |-> paragraphs, text |-> text]

Picture(image, blob) == Shape("picture", image, blob, <<>>, <<>>)

TextFrame(paragraphs) == Shape("textframe", "absent", "absent", paragraphs, <<>>)

FlatText(text) == Shape("text", "absent", "absent", <<>>, text)

OtherShape == Shape("other", "absent", "absent", <<>>, <<>>)

RECURSIVE ParagraphTexts(_)
ParagraphTexts(paragraphs) ==
    IF paragraphs = <<>> THEN <<>>
    ELSE <<Head(paragraphs).text>> \o ParagraphTexts(Tail(paragraphs))

\* shape.text of a shape with a text frame: its paragraphs joined by "\n"
ShapeText(shape) ==
    IF shape.kind = "textframe"
    THEN Join(ParagraphTexts(shape.paragraphs), <<"\n">>)
    ELSE shape.text

\* A slide of the deck: its shapes in order, slide.shapes.title as the index
\* of the title shape among them (0: None), and the notes text frame
\* (has_notes FALSE: no notes slide)
DeckSlide(title, shapes, has_notes, notes) ==
    [title |-> title, shapes |-> shapes, has_notes |-> has_notes, notes |-> notes]

\* ------------------------------------------------------------ SlideContent
\* dataclass SlideContent; a content entry is a tuple (level, text)
\* (is_tuple TRUE) or a plain str (is_tuple FALSE, level unused)
SlideContent(title, content, slide_type, notes, images) ==
    [title |-> title, content |-> content, slide_type |-> slide_type,
     layout |-> "default", notes |-> notes, images |-> images]

TupleItem(level, text) == [is_tuple |-> TRUE, level |-> level, text |-> text]

StrItem(text) == [is_tuple |-> FALSE, level |-> 0, text |-> text]

NoSlide == SlideContent(<<>>, <<>>, "none", <<>>, <<>>)

\* ------------------------------------------------- parse_powerpoint_slide
RECURSIVE ParagraphEntries(_)
\* lines 88-98: one entry per paragraph whose stripped text is not empty
ParagraphEntries(paragraphs) ==
    IF paragraphs = <<>> THEN <<>>
    ELSE LET text == Strip(Head(paragraphs).text)
         IN (IF text # <<>>
             THEN <<TupleItem(Head(paragraphs).level, Escape(text))>>
             ELSE <<>>) \o ParagraphEntries(Tail(paragraphs))

RECURSIVE LineEntries(_)
\* lines 109-113: the stripped non-empty lines, escaped, at level 0
LineEntries(lines) ==
    IF lines = <<>> THEN <<>>
    ELSE (IF Strip(Head(lines)) # <<>>
          THEN <<TupleItem(0, Escape(Strip(Head(lines))))>>
          ELSE <<>>) \o LineEntries(Tail(lines))

\* lines 101-117: a shape with text and no text frame
FlatTextEntries(shape) ==
    LET text == Strip(shape.text)
    IN IF \E k \in 1..Len(text) : text[k] = "\n"
       THEN LineEntries(SplitOn(text, "\n", <<>>))
       ELSE <<TupleItem(0, Escape(text))>>

\* hasattr(shape, 'image') (line 71): reads the property; "raise" when the
\* read throws anything but AttributeError, which hasattr lets through
HasImage(shape) ==
    IF shape.kind # "picture" THEN "no"
    ELSE IF shape.image = "ok" THEN "yes" ELSE "raise"

RECURSIVE ShapeLoop(_, _, _, _)
\* lines 69-117: the loop over slide.shapes from shape i on; acc holds
\* content, images (filename and image_data: the blob, named by the slide
\* and the index of its shape), the warnings printed, and the exception that
\* left the loop
ShapeLoop(slide, slide_num, i, acc) ==
    IF i > Len(slide.shapes) THEN acc
    ELSE
      LET shape == slide.shapes[i]
          img == HasImage(shape)
      IN
      IF img = "raise" THEN [acc EXCEPT !.raised = shape.image]
      ELSE IF img = "yes" THEN
        IF shape.blob = "ok"
        THEN ShapeLoop(slide, slide_num, i + 1,
               [acc EXCEPT !.images = Append(@,
                   [filename |-> ImageFilename(slide_num, Len(acc.images)),
                    image_data |-> <<ToString(slide_num + 1), ToString(i)>>])])
        ELSE ShapeLoop(slide, slide_num, i + 1,
               [acc EXCEPT !.warnings = @ + 1])
      ELSE IF shape.kind = "textframe" THEN
        IF i = slide.title
        THEN ShapeLoop(slide, slide_num, i + 1, acc)
        ELSE ShapeLoop(slide, slide_num, i + 1,
               [acc EXCEPT !.content = @ \o ParagraphEntries(shape.paragraphs)])
      ELSE IF shape.kind = "text" /\ Strip(shape.text) # <<>> THEN
        IF i = slide.title
        THEN ShapeLoop(slide, slide_num, i + 1, acc)
        ELSE ShapeLoop(slide, slide_num, i + 1,
               [acc EXCEPT !.content = @ \o FlatTextEntries(shape)])
      ELSE ShapeLoop(slide, slide_num, i + 1, acc)

\* lines 62-66: the title
ExtractTitle(slide) ==
    IF slide.title # 0
    THEN Escape(Join(SplitWs(Strip(ShapeText(slide.shapes[slide.title])), <<>>),
                     <<" ">>))
    ELSE <<>>

\* lines 120-121: the speaker notes
ExtractNotes(slide) == IF slide.has_notes THEN Strip(slide.notes) ELSE <<>>

\* the slide type with the "bullets" threshold off by one (>= 3)
SlideType_AtLeast3(slide_num, title, content) ==
    IF slide_num = 0 THEN "title"
    ELSE IF content = <<>> /\ title # <<>> THEN "section"
    ELSE IF Len(content) >= 3 THEN "bullets"
    ELSE "default"

\* lines 123-130: the slide type
SlideType(slide_num, title, content) ==
    IF slide_num = 0 THEN "title"
    ELSE IF content = <<>> /\ title # <<>> THEN "section"
    ELSE IF Len(content) > 3 THEN "bullets"
    ELSE "default"

RECURSIVE Filenames(_)
\* [img['filename'] for img in images]
Filenames(images) ==
    IF images = <<>> THEN <<>>
    ELSE <<Head(images).filename>> \o Filenames(Tail(images))

\* line 137: title or f"Slide {slide_num + 1}"
TitleOrFallback(title, slide_num) ==
    IF title # <<>> THEN title
    ELSE <<"S", "l", "i", "d", "e", " ", ToString(slide_num + 1)>>

\* parse_powerpoint_slide(slide, slide_num) with self._temp_images = staged:
\* the exception it raises ("none": it returns), the SlideContent it
\* returns, self._temp_images afterwards, and the warnings it printed
parse_powerpoint_slide(slide, slide_num, staged) ==
    LET title == ExtractTitle(slide)
        acc == ShapeLoop(slide, slide_num, 1,
                 [content |-> <<>>, images |-> <<>>, warnings |-> 0,
                  raised |-> "none"])
    IN IF acc.raised # "none"
       THEN [raised |-> acc.raised, slide |-> NoSlide, staged |-> staged,
             warnings |-> acc.warnings]
       ELSE [raised |-> "none",
             slide |-> SlideContent(TitleOrFallback(title, slide_num),
                                    acc.content,
                                    SlideType(slide_num, title, acc.content),
                                    ExtractNotes(slide),
                                    Filenames(acc.images)),
             staged |-> staged \o acc.images,
             warnings |-> acc.warnings]

\* ------------------------------------------------ parse_google_doc_content
\* lines 150-185: the loop over the lines; st holds slides and current_slide
\* (open FALSE: current_slide is None)
DocStep(st, raw) ==
    LET line == Strip(raw)
        pushed == IF st.open THEN Append(st.slides, st.current) ELSE st.slides
    IN
    IF line = <<>> THEN st
    ELSE IF StartsWith(line, <<"#", " ">>)
    THEN [slides |-> pushed, open |-> TRUE,
          current |-> SlideContent(SubSeq(line, 3, Len(line)), <<>>, "title",
                                   <<>>, <<>>)]
    ELSE IF StartsWith(line, <<"#", "#", " ">>)
            \/ StartsWith(line, <<"#", "#", "#", " ">>)
    THEN [slides |-> pushed, open |-> TRUE,
          current |-> SlideContent(Strip(Replace(line, "#", <<>>)), <<>>,
                                   "section", <<>>, <<>>)]
    ELSE IF StartsWith(line, <<"*", " ">>) \/ StartsWith(line, <<"-", " ">>)
    THEN IF st.open
         THEN [st EXCEPT !.current.content = Append(@, StrItem(line))]
         ELSE [slides |-> st.slides, open |-> TRUE,
               current |-> SlideContent(<<"C", "o", "n", "t", "e", "n", "t">>,
                                        <<StrItem(line)>>, "bullets", <<>>, <<>>)]
    ELSE st

RECURSIVE DocLoop(_, _)
DocLoop(st, lines) ==
    IF lines = <<>> THEN st ELSE DocLoop(DocStep(st, Head(lines)), Tail(lines))

\* parse_google_doc_content(content): the list of slides it returns
parse_google_doc_content(content) ==
    LET st == DocLoop([slides |-> <<>>, open |-> FALSE, current |-> NoSlide],
                      SplitOn(content, "\n", <<>>))
    IN IF st.open THEN Append(st.slides, st.current) ELSE st.slides

\* ---------------------------------------------------- generate_frontmatter
Author == "Kenneth Kousen"

\* lines 195-213; each fixed run of the template is one token
generate_frontmatter(title, author) ==
    LET safe_title == <<"\"">> \o title \o <<"\"">>
    IN <<"---", "\n", "theme: seriph", "\n",
         "background: https://source.unsplash.com/1920x1080/?java,programming",
         "\n", "class: text-center", "\n", "highlighter: shiki", "\n",
         "lineNumbers: false", "\n", "info: |", "\n", "  ## ">> \o title
       \o <<"\n", "  ", "\n", "  By ", author, "\n", "  ", "\n",
            "  Learn more at [KouseniT](https://kousenit.com)", "\n",
            "drawings:", "\n", "  persist: false", "\n",
            "transition: slide-left", "\n", "title: ">> \o safe_title
       \o <<"\n", "mdc: true", "\n", "---">>

\* ----------------------------------------------- convert_slide_to_markdown
RECURSIVE Indent(_)
\* "  " * level
Indent(level) == IF level <= 0 THEN <<>> ELSE <<" ", " ">> \o Indent(level - 1)

RECURSIVE ItemLines(_)
\* lines 233-242 and 260-269: one "- text" line per content entry
ItemLines(content) ==
    IF content = <<>> THEN <<>>
    ELSE (IF Head(content).is_tuple
          THEN Indent(Head(content).level) \o <<"-", " ">> \o Head(content).text
               \o <<"\n">>
          ELSE <<"-", " ">> \o Head(content).text \o <<"\n">>)
         \o ItemLines(Tail(content))

RECURSIVE ImageTags(_)
\* lines 249-250 and 276-277: one img tag per image reference
ImageTags(images) ==
    IF images = <<>> THEN <<>>
    ELSE <<"<img src=\"./">> \o Head(images)
         \o <<"\" alt=\"Image\" style=\"max-width: 80%; max-height: 400px; margin: 20px auto; display: block;\" />",
              "\n", "\n">>
         \o ImageTags(Tail(images))

\* lines 246-250 and 273-277
ImageMd(images) ==
    IF images # <<>> THEN <<"\n", "\n">> \o ImageTags(images) ELSE <<>>

\* lines 259-270: the v-clicks block
VClicks(content) ==
    <<"\n", "<v-clicks>", "\n", "\n">> \o ItemLines(content)
    \o <<"\n", "</v-clicks>">>

\* lines 252-256 and 279-283
HeadingAnd(title, content_md, image_md) ==
    <<"\n", "#", " ">> \o title \o <<"\n", "\n">> \o content_md \o image_md
    \o <<"\n">>

\* the renderer with the "section" branch lacking its test of slide.content
convert_slide_to_markdown_AlwaysBlock(slide) ==
    IF slide.slide_type = "title"
    THEN <<"\n", "#", " ">> \o slide.title \o <<"\n", "\n", "<div class=\"pt-12\">", "\n">>
    ELSE HeadingAnd(slide.title, VClicks(slide.content), ImageMd(slide.images))

\* convert_slide_to_markdown(slide): the fragment
convert_slide_to_markdown(slide) ==
    IF slide.slide_type = "title"
    THEN <<"\n", "#", " ">> \o slide.title
         \o <<"\n", "\n", "<div class=\"pt-12\">", "\n",
              "  <span @click=\"$slidev.nav.next\" class=\"px-2 py-1 rounded cursor-pointer\" hover=\"bg-white bg-opacity-10\">",
              "\n",
              "    Press Space for next page <carbon:arrow-right class=\"inline\"/>",
              "\n", "  </span>", "\n", "</div>", "\n">>
    ELSE IF slide.slide_type = "section"
    THEN HeadingAnd(slide.title,
                    IF slide.content # <<>> THEN VClicks(slide.content) ELSE <<>>,
                    ImageMd(slide.images))
    ELSE HeadingAnd(slide.title, VClicks(slide.content), ImageMd(slide.images))

\* add_closing_slide(author), lines 287-304
add_closing_slide(author) ==
    <<"\n", "# Thank You!", "\n", "\n", "<div class=\"text-center\">", "\n",
      "\n", "## Questions?", "\n", "\n", "<div class=\"pt-12\">", "\n",
      "  <span class=\"text-6xl\"><carbon:logo-github /></span>", "\n",
      "</div>", "\n", "\n", "**", author, "**  ", "\n",
      "*Author, Speaker, Java & AI Expert*", "\n", "\n",
      "[kousenit.com](https://kousenit.com) | [@kenkousen](https://twitter.com/kenkousen)",
      "\n", "\n", "</div>", "\n">>

\* -------------------------------------------------------- sanitize_filename
\* the characters of the model's alphabet that \w does not match
NonWord ==
    {" ", "\n", "\t", "<", ">", "&", ";", "\"", "#", "*", "-", ".", "/", ":", "!"}

UpperCase ==
    <<"A", "B", "C", "D", "E", "F", "G", "H", "I", "J", "K", "L", "M", "N", "O",
      "P", "Q", "R", "S", "T", "U", "V", "W", "X", "Y", "Z">>

LowerCase ==
    <<"a", "b", "c", "d", "e", "f", "g", "h", "i", "j", "k", "l", "m", "n", "o",
      "p", "q", "r", "s", "t", "u", "v", "w", "x", "y", "z">>

\* str.lower(), one character
Lower(c) ==
    IF \E k \in 1..26 : UpperCase[k] = c
    THEN LowerCase[CHOOSE k \in 1..26 : UpperCase[k] = c]
    ELSE c

RECURSIVE DropSpecial(_)
\* re.sub(r'[^\w\s-]', '', title)
DropSpecial(s) ==
    IF s = <<>> THEN <<>>
    ELSE (IF Head(s) \in NonWord /\ ~IsSpace(Head(s)) /\ Head(s) # "-"
          THEN <<>> ELSE <<Head(s)>>) \o DropSpecial(Tail(s))

RECURSIVE Hyphenate(_, _)
\* re.sub(r'[-\s]+', '-', clean); in_run: the previous character was in a run
Hyphenate(s, in_run) ==
    IF s = <<>> THEN <<>>
    ELSE IF Head(s) = "-" \/ IsSpace(Head(s))
         THEN (IF in_run THEN <<>> ELSE <<"-">>) \o Hyphenate(Tail(s), TRUE)
    ELSE <<Lower(Head(s))>> \o Hyphenate(Tail(s), FALSE)

\* sanitize_filename(title), lines 371-373
sanitize_filename(title) == Hyphenate(DropSpecial(title), FALSE)

\* ------------------------------------------- convert_powerpoint_to_slidev
RECURSIVE SlideBlocks_SepFirst(_, _)
\* the loop with a separator before the first slide too
SlideBlocks_SepFirst(slides, i) ==
    IF i > Len(slides) THEN <<>>
    ELSE <<(<<"---">>)>> \o <<convert_slide_to_markdown(slides[i])>>
         \o SlideBlocks_SepFirst(slides, i + 1)

RECURSIVE SlideBlocks(_, _)
\* lines 343-348: "---" before every slide but the first, then its fragment
SlideBlocks(slides, i) ==
    IF i > Len(slides) THEN <<>>
    ELSE (IF i - 1 > 0 THEN <<(<<"---">>)>> ELSE <<>>)
         \o <<convert_slide_to_markdown(slides[i])>>
         \o SlideBlocks(slides, i + 1)

\* lines 337-352: the blocks of slidev_content
Assemble(title, slides, author) ==
    <<generate_frontmatter(title, author)>> \o SlideBlocks(slides, 1)
    \o <<(<<"---">>)>> \o <<add_closing_slide(author)>>

\* Path(pptx_path).stem of the file-th deck
Stem(file) == <<"d", "e", "c", "k", ToString(file)>>

\* line 317
DeckTitle(slides, file) == IF slides # <<>> THEN slides[1].title ELSE Stem(file)

\* str(output_path), lines 321 and 358
OutputPath(title) == sanitize_filename(title) \o <<"/", "slides.md">>

\* ------------------------------------------------------------------ inputs
\* all sequences over S of length at most n
SeqsUpTo(S, n) == UNION {[1..k -> S] : k \in 0..n}

Paragraph(level, text) == [level |-> level, text |-> text]

PA == Paragraph(0, <<"A">>)

PB == Paragraph(1, <<" ", "<", "b", ">">>)

PBlank == Paragraph(0, <<" ">>)

ShapeSamples ==
    {TextFrame(<<PA>>), TextFrame(<<PBlank>>), TextFrame(<<PA, PB>>)}
    \cup {Picture("ok", "ok"), Picture("ok", "raises"),
          Picture("ValueError", "absent")}
    \cup {FlatText(<<"a", "\n", " ", "\n", "<", "b">>), FlatText(<<" ">>)}
    \cup {OtherShape}

NotesSamples == {[has |-> FALSE, text |-> <<>>], [has |-> TRUE, text |-> <<" ", "<", "n", ">">>]}

\* the slides handed to parse_powerpoint_slide alone; the title shape, when
\* there is one, is a shape of the slide that has a text frame
SlideInputs ==
    {DeckSlide(t, shapes, n.has, n.text) :
        <<shapes, t, n>> \in
          {x \in SeqsUpTo(ShapeSamples, MaxShapes) \X (0..MaxShapes) \X NotesSamples :
             x[2] = 0 \/ (x[2] <= Len(x[1]) /\ x[1][x[2]].kind = "textframe")}}

\* the slides of the decks that go through the whole pipeline
TitleA == TextFrame(<<Paragraph(0, <<"A">>)>>)

Body2 == TextFrame(<<Paragraph(0, <<"a">>), Paragraph(1, <<"<", "b", ">">>)>>)

DeckSlides ==
    {DeckSlide(1, <<TitleA>>, FALSE, <<>>),
     DeckSlide(1, <<TitleA, Body2, Picture("ok", "ok")>>, TRUE, <<"<", "n", ">">>),
     DeckSlide(0, <<Picture("ok", "ok"), Picture("ok", "raises"), Picture("ok", "ok")>>,
               FALSE, <<>>),
     DeckSlide(1, <<TitleA, Picture("ok", "ok"), Picture("ValueError", "absent"),
                    Picture("ok", "ok")>>, FALSE, <<>>)}

\* the lines of the plain-markup documents
LineSamples ==
    {<<"#", " ", "a", "<">>, <<"#", "#", " ", "b">>,
     <<"#", "#", "#", " ", "a", "#">>, <<"*", " ", "a">>,
     <<" ", "-", " ", "b", ">">>, <<"a">>}

\* the slides handed to convert_slide_to_markdown alone
ItemSamples ==
    {TupleItem(0, <<"a">>), TupleItem(1, <<"b">>), TupleItem(2, <<"c">>),
     StrItem(<<"*", " ", "a">>)}

ImageLists ==
    {<<>>, <<ImageFilename(0, 0)>>, <<ImageFilename(0, 0), ImageFilename(0, 1)>>}

RenderSlides ==
    {SlideContent(<<"a">>, c, t, <<>>, imgs) :
        <<c, t, imgs>> \in SeqsUpTo(ItemSamples, MaxItems)
                           \X {"title", "section", "bullets", "default"}
                           \X ImageLists}

\* the titles handed to generate_frontmatter alone
TitleSamples ==
    {<<"a">>, <<"a", ":", " ", "b">>, <<"a", "\"", "b">>, <<"\"", "a", "\"">>,
     <<>>}

\* ------------------------------------------------------------------- state
VARIABLES
    PPTX_AVAILABLE,  \* the module flag set at import (lines 14-19)
    pc,              \* "idle", "batch", "extract", "convert", "done"
    entry,           \* the method the caller called
    pptx_files,      \* the number of files the glob of line 394 found
    file,            \* the ordinal of the file being converted
    temp_images,     \* self._temp_images
    deck,            \* the slides of presentation.slides read so far
    slides,          \* the list slides of extract_from_powerpoint
                     \* (deck, slides, slidev_content and the view of the
                     \* output directory are those of the conversion under
                     \* way or, for a caller of one conversion, just ended;
                     \* the batch loop holds none of them between two decks)
    results,         \* the list results of batch_convert_powerpoints
    errors,          \* the failures line 401 printed
    calls,           \* history: how each conversion of a deck ended
    raised,          \* the exception that reached the caller ("none")
    returned,        \* the value returned to the caller
    fs_touched,      \* a directory was made or a file written
    written_images,  \* the image files written to the deck's output directory
    slides_md,       \* slides.md of the deck's output directory
    slidev_content,  \* the list slidev_content
    direct           \* a direct call of one method: fn, arg, result

vars ==
    <<PPTX_AVAILABLE, pc, entry, pptx_files, file, temp_images, deck, slides,
      results, errors, calls, raised, returned, fs_touched, written_images,
      slides_md, slidev_content, direct>>

NoDirect == [fn |-> "none"]

NoFile == [written |-> FALSE, content |-> <<>>]

Init ==
    /\ PPTX_AVAILABLE \in BOOLEAN
    /\ pc = "idle"
    /\ entry = "none"
    /\ pptx_files = 0
    /\ file = 0
    /\ temp_images = <<>>
    /\ deck = <<>>
    /\ slides = <<>>
    /\ results = <<>>
    /\ errors = <<>>
    /\ calls = <<>>
    /\ raised = "none"
    /\ returned = <<>>
    /\ fs_touched = FALSE
    /\ written_images = {}
    /\ slides_md = NoFile
    /\ slidev_content = <<>>
    /\ direct = NoDirect

\* ----------------------------------------------------------------- actions
\* the loop without its try: an exception leaves batch_convert_powerpoints
BatchHandle_NoTry(f, exc, value) ==
    /\ results' = IF exc = "none" THEN Append(results, value) ELSE results
    /\ errors' = errors
    /\ pc' = IF exc = "none" THEN "batch" ELSE "done"
    /\ raised' = exc
    /\ UNCHANGED returned

\* lines 397-401: what the loop of batch_convert_powerpoints does when the
\* conversion of deck f returns value (exc "none") or raises exc
BatchHandle(f, exc, value) ==
    /\ results' = IF exc = "none" THEN Append(results, value) ELSE results
    /\ errors' = IF exc = "none" THEN errors
                 ELSE Append(errors, [file |-> f, exc |-> exc])
    /\ pc' = "batch"
    /\ UNCHANGED <<raised, returned>>

\* what one conversion holds: its locals, self._temp_images and its files
Locals(d, s, t, w, m, c) ==
    [deck |-> d, slides |-> s, temp_images |-> t, written_images |-> w,
     slides_md |-> m, slidev_content |-> c]

\* the conversion under way goes on with loc
Continue(loc) ==
    /\ deck' = loc.deck
    /\ slides' = loc.slides
    /\ temp_images' = loc.temp_images
    /\ written_images' = loc.written_images
    /\ slides_md' = loc.slides_md
    /\ slidev_content' = loc.slidev_content
    /\ UNCHANGED <<calls, results, errors, raised, returned>>

\* the method called for deck f under entry point e ends holding loc: it
\* returns value (exc "none") or raises exc, to the batch loop or to the
\* caller.  The batch loop reads nothing of a finished conversion but its
\* outcome: self._temp_images is reset by line 311 before it is read again,
\* and is shown reset from here on
End(e, f, exc, value, loc) ==
    /\ calls' = Append(calls, [file |-> f, exc |-> exc, value |-> value])
    /\ IF e = "batch"
       THEN /\ BatchHandle(f, exc, value)
            /\ temp_images' = <<>>
            /\ deck' = <<>>
            /\ slides' = <<>>
            /\ written_images' = {}
            /\ slides_md' = NoFile
            /\ slidev_content' = <<>>
       ELSE /\ pc' = "done"
            /\ raised' = exc
            /\ returned' = value
            /\ temp_images' = loc.temp_images
            /\ deck' = loc.deck
            /\ slides' = loc.slides
            /\ written_images' = loc.written_images
            /\ slides_md' = loc.slides_md
            /\ slidev_content' = loc.slidev_content
            /\ UNCHANGED <<results, errors>>

\* line 311 (not when extract_from_powerpoint is the entry point) and
\* lines 41-45: the backend check and Presentation(pptx_path), which raises
\* on a file that is no deck
Begin(e, f) ==
    LET loc == Locals(<<>>, <<>>,
                      IF e = "extract_from_powerpoint" THEN temp_images ELSE <<>>,
                      {}, NoFile, <<>>)
    IN IF ~PPTX_AVAILABLE
       THEN End(e, f, "ImportError", <<>>, loc)
       ELSE \E opened \in BOOLEAN :
              IF opened
              THEN /\ pc' = "extract"
                   /\ Continue(loc)
              ELSE End(e, f, "PackageNotFoundError", <<>>, loc)

\* lines 393-394
batch_convert_powerpoints ==
    /\ pc = "idle"
    /\ \E n \in 0..MaxDecks : pptx_files' = n
    /\ entry' = "batch"
    /\ pc' = "batch"
    /\ results' = <<>>
    /\ UNCHANGED <<PPTX_AVAILABLE, file, temp_images, deck, slides, errors,
                   calls, raised, returned, fs_touched, written_images,
                   slides_md, slidev_content, direct>>

\* lines 396-398: the next file of the batch
BatchNextFile ==
    /\ pc = "batch"
    /\ file < pptx_files
    /\ file' = file + 1
    /\ Begin("batch", file + 1)
    /\ UNCHANGED <<PPTX_AVAILABLE, entry, pptx_files, fs_touched, direct>>

\* line 403
BatchReturn ==
    /\ pc = "batch"
    /\ file = pptx_files
    /\ pc' = "done"
    /\ returned' = results
    /\ UNCHANGED <<PPTX_AVAILABLE, entry, pptx_files, file, temp_images, deck,
                   slides, results, errors, calls, raised, fs_touched,
                   written_images, slides_md, slidev_content, direct>>

\* a caller calls method e on one deck
CallOnDeck(e) ==
    /\ pc = "idle"
    /\ entry' = e
    /\ pptx_files' = 1
    /\ file' = 1
    /\ Begin(e, 1)
    /\ UNCHANGED <<PPTX_AVAILABLE, fs_touched, direct>>

\* line 383
convert_from_powerpoint == CallOnDeck("convert_from_powerpoint")

\* lines 306-314
convert_powerpoint_to_slidev == CallOnDeck("convert_powerpoint_to_slidev")

\* lines 39-45
extract_from_powerpoint == CallOnDeck("extract_from_powerpoint")

\* lines 47-50: the next slide of presentation.slides
ExtractSlide ==
    /\ pc = "extract"
    /\ Len(slides) < MaxSlides
    /\ \E s \in DeckSlides :
         LET r == parse_powerpoint_slide(s, Len(slides), temp_images)
             loc == Locals(Append(deck, s), slides, temp_images,
                           written_images, slides_md, slidev_content)
         IN IF r.raised # "none"
            THEN End(entry, file, r.raised, <<>>, loc)
            ELSE /\ Continue([loc EXCEPT !.slides = Append(slides, r.slide),
                                         !.temp_images = r.staged])
                 /\ UNCHANGED pc
    /\ UNCHANGED <<PPTX_AVAILABLE, entry, pptx_files, file, fs_touched, direct>>

\* line 52, extract_from_powerpoint called by the caller
ExtractReturn ==
    /\ pc = "extract"
    /\ entry = "extract_from_powerpoint"
    /\ End(entry, file, "none", slides,
           Locals(deck, slides, temp_images, written_images, slides_md,
                  slidev_content))
    /\ UNCHANGED <<PPTX_AVAILABLE, entry, pptx_files, file, fs_touched, direct>>

\* the image files lines 327-334 write: those of temp_images but the ones
\* whose write fails
SavedImages(failed) ==
    {[name |-> temp_images[k].filename, data |-> temp_images[k].image_data] :
        k \in (1..Len(temp_images)) \ failed}

\* lines 52 and 317-366: the rest of convert_powerpoint_to_slidev.  mkdir
\* (line 322) and the write of slides.md (lines 360-361) raise OSError when
\* they fail; a failed image write is caught (lines 333-334) and the loop
\* goes on to the next image
FinishConvert ==
    /\ pc = "extract"
    /\ entry # "extract_from_powerpoint"
    /\ LET title == DeckTitle(slides, file)
           blocks == Assemble(title, slides, Author)
           full_content == Join(blocks, <<"\n">>)
           loc == Locals(deck, slides, temp_images, written_images,
                         slides_md, slidev_content)
       IN \E mkdir_ok \in BOOLEAN :
            IF ~mkdir_ok
            THEN /\ End(entry, file, "OSError", <<>>, loc)
                 /\ UNCHANGED fs_touched
            ELSE /\ fs_touched' = TRUE
                 /\ \E write_ok \in BOOLEAN, failed \in SUBSET (1..Len(temp_images)) :
                      LET saved == [loc EXCEPT !.written_images = SavedImages(failed),
                                               !.slidev_content = blocks]
                      IN IF write_ok
                         THEN End(entry, file, "none", OutputPath(title),
                                  [saved EXCEPT !.slides_md =
                                      [written |-> TRUE, content |-> full_content]])
                         ELSE End(entry, file, "OSError", <<>>, saved)
    /\ UNCHANGED <<PPTX_AVAILABLE, entry, pptx_files, file, direct>>

\* a direct call of a method that reads and writes nothing but its arguments
\* (parse_powerpoint_slide: and self._temp_images, empty before the call)
DirectCall(d) ==
    /\ pc' = "done"
    /\ entry' = d.fn
    /\ direct' = d
    /\ UNCHANGED <<PPTX_AVAILABLE, pptx_files, file, temp_images, deck, slides,
                   results, errors, calls, raised, returned, fs_touched,
                   written_images, slides_md, slidev_content>>

\* the slide objects come from python-pptx
Call_parse_powerpoint_slide ==
    /\ pc = "idle"
    /\ PPTX_AVAILABLE
    /\ \E s \in SlideInputs, n \in 0..MaxSlideNum :
         DirectCall([fn |-> "parse_powerpoint_slide", arg |-> s, slide_num |-> n,
                     result |-> parse_powerpoint_slide(s, n, <<>>)])

Call_parse_google_doc_content ==
    /\ pc = "idle"
    /\ \E lines \in SeqsUpTo(LineSamples, MaxLines) :
         DirectCall([fn |-> "parse_google_doc_content", arg |-> lines,
                     result |-> parse_google_doc_content(Join(lines, <<"\n">>))])

Call_convert_slide_to_markdown ==
    /\ pc = "idle"
    /\ \E s \in RenderSlides :
         DirectCall([fn |-> "convert_slide_to_markdown", arg |-> s,
                     result |-> convert_slide_to_markdown(s)])

Call_generate_frontmatter ==
    /\ pc = "idle"
    /\ \E t \in TitleSamples :
         DirectCall([fn |-> "generate_frontmatter", arg |-> t,
                     result |-> generate_frontmatter(t, Author)])

Next ==
    \/ batch_convert_powerpoints
    \/ BatchNextFile
    \/ BatchReturn
    \/ convert_from_powerpoint
    \/ convert_powerpoint_to_slidev
    \/ extract_from_powerpoint
    \/ ExtractSlide
    \/ ExtractReturn
    \/ FinishConvert
    \/ Call_parse_powerpoint_slide
    \/ Call_parse_google_doc_content
    \/ Call_convert_slide_to_markdown
    \/ Call_generate_frontmatter

Spec == Init /\ [][Next]_vars

\* ------------------------------------------------------------------ claims
\* the slide has a title shape whose text holds a character that is no
\* whitespace: the extracted title is not empty
Titled(s) ==
    /\ s.title # 0
    /\ \E k \in 1..Len(ShapeText(s.shapes[s.title])) :
         ~IsSpace(ShapeText(s.shapes[s.title])[k])

\* the slide type the classification rule gives ordinal i, a title that is
\* empty or not, and n content entries, one type at a time
TypeAsClaimed(type, i, titled, n) ==
    /\ type = "title" <=> i = 0
    /\ type = "section" <=> (i # 0 /\ n = 0 /\ titled)
    /\ type = "bullets" <=> (i # 0 /\ n > 3)
    /\ type = "default" <=> (i # 0 /\ n <= 3 /\ ~(n = 0 /\ titled))

\* C1: every slide the deck extractor returns, called alone or within a
\* conversion, has the type the rule gives its ordinal, the emptiness of its
\* extracted title and the number of its content entries: "title" at ordinal
\* 0, else "section" for no content and a title, else "bullets" for more
\* than 3 entries, else "default".
C1_SlideTypeRule ==
    /\ (direct.fn = "parse_powerpoint_slide" /\ direct.result.raised = "none") =>
         TypeAsClaimed(direct.result.slide.slide_type, direct.slide_num,
                       Titled(direct.arg), Len(direct.result.slide.content))
    /\ \A k \in 1..Len(slides) :
         TypeAsClaimed(slides[k].slide_type, k - 1, Titled(deck[k]),
                       Len(slides[k].content))

\* a slide past the first with four content entries is typed "bullets"
C1_Witness ==
    /\ direct.fn = "parse_powerpoint_slide"
    /\ direct.slide_num = 1
    /\ direct.result.raised = "none"
    /\ Len(direct.result.slide.content) = 4
    /\ direct.result.slide.slide_type = "bullets"

NoRaw(text) == \A k \in 1..Len(text) : text[k] \notin {"<", ">"}

SlideEscaped(s) ==
    /\ NoRaw(s.title)
    /\ NoRaw(s.notes)
    /\ \A k \in 1..Len(s.content) : NoRaw(s.content[k].text)

\* C2: no text field (title, text of a content entry, notes) of a slide
\* returned by parse_powerpoint_slide or by parse_google_doc_content holds a
\* raw '<' or '>'.
C2_NoRawAngleBrackets ==
    /\ (direct.fn = "parse_powerpoint_slide" /\ direct.result.raised = "none") =>
         SlideEscaped(direct.result.slide)
    /\ direct.fn = "parse_google_doc_content" =>
         \A k \in 1..Len(direct.result) : SlideEscaped(direct.result[k])
    /\ \A k \in 1..Len(slides) : SlideEscaped(slides[k])

IsBullet(line) == StartsWith(line, <<"*", " ">>) \/ StartsWith(line, <<"-", " ">>)

\* the document is a '# ' heading, a '## ' heading, then bullet lines
HeadingSectionBullets(lines) ==
    /\ Len(lines) >= 2
    /\ StartsWith(lines[1], <<"#", " ">>)
    /\ StartsWith(lines[2], <<"#", "#", " ">>)
    /\ \A k \in 3..Len(lines) : IsBullet(lines[k])

\* C3: for a document that is a '# ' heading, a '## ' heading and then
\* bullet lines, parse_google_doc_content returns two slides: the first
\* titled by the '# ' heading, of type "title", without content; the second
\* titled by the '## ' heading, of type "section", with one entry
\* (0, bullet text without its marker) per bullet line, in order.
C3_HeadingSectionBullets ==
    (direct.fn = "parse_google_doc_content" /\ HeadingSectionBullets(direct.arg)) =>
      LET lines == direct.arg
      IN direct.result =
           <<SlideContent(SubSeq(lines[1], 3, Len(lines[1])), <<>>, "title",
                          <<>>, <<>>),
             SlideContent(SubSeq(lines[2], 4, Len(lines[2])),
                          [k \in 1..(Len(lines) - 2) |->
                             TupleItem(0, SubSeq(lines[k + 2], 3, Len(lines[k + 2])))],
                          "section", <<>>, <<>>)>>

RECURSIVE NonEmpty(_)
NonEmpty(lines) ==
    IF lines = <<>> THEN <<>>
    ELSE (IF Head(lines) = <<>> THEN <<>> ELSE <<Head(lines)>>)
         \o NonEmpty(Tail(lines))

\* the lines of a text that are not empty
Lines(text) == NonEmpty(SplitOn(text, "\n", <<>>))

\* the list line of a content entry: 2 * level spaces, "- ", the text
ListLine(item) ==
    [k \in 1..(2 * item.level) |-> " "] \o <<"-", " ">> \o item.text

\* the lines of the v-clicks block of a content list
BlockLines(content) ==
    <<(<<"<v-clicks>">>)>> \o [k \in 1..Len(content) |-> ListLine(content[k])]
    \o <<(<<"</v-clicks>">>)>>

ImgLine(image) ==
    <<"<img src=\"./">> \o image
    \o <<"\" alt=\"Image\" style=\"max-width: 80%; max-height: 400px; margin: 20px auto; display: block;\" />">>

\* heading, then the block when there is one, then one tag per image
FragmentLines(slide, with_block) ==
    <<(<<"#", " ">> \o slide.title)>>
    \o (IF with_block THEN BlockLines(slide.content) ELSE <<>>)
    \o [k \in 1..Len(slide.images) |-> ImgLine(slide.images[k])]

ListTypes == {"section", "bullets", "default"}

\* C4 as stated: for the types "section", "bullets" and "default" the
\* fragment is the heading, then one v-clicks block with one list line per
\* content entry in order (2 * level spaces, "- ", text), then the images,
\* and is the same for the three types, empty content included.
C4_AsStated ==
    (direct.fn = "convert_slide_to_markdown" /\ direct.arg.slide_type \in ListTypes) =>
      /\ Lines(direct.result) = FragmentLines(direct.arg, TRUE)
      /\ \A t \in ListTypes :
           convert_slide_to_markdown([direct.arg EXCEPT !.slide_type = t]) = direct.result

\* C4, amended: as stated, except that a "section" slide without content
\* gets no v-clicks block, so that the three types give the same fragment
\* when the content is not empty, and "bullets" and "default" always.
C4_ListFragment ==
    (direct.fn = "convert_slide_to_markdown" /\ direct.arg.slide_type \in ListTypes) =>
      /\ Lines(direct.result) =
           FragmentLines(direct.arg,
                         ~(direct.arg.slide_type = "section" /\ direct.arg.content = <<>>))
      /\ \A t \in ListTypes :
           (direct.arg.content # <<>> \/ "section" \notin {t, direct.arg.slide_type}) =>
             convert_slide_to_markdown([direct.arg EXCEPT !.slide_type = t]) = direct.result

\* a "section" slide without content and with an image was rendered
C4_Witness ==
    /\ direct.fn = "convert_slide_to_markdown"
    /\ direct.arg.slide_type = "section"
    /\ direct.arg.content = <<>>
    /\ direct.arg.images # <<>>
    /\ Lines(direct.result) = FragmentLines(direct.arg, FALSE)

ConvertEntries == {"convert_from_powerpoint", "convert_powerpoint_to_slidev"}

Separator == <<"---">>

\* the number of "---" blocks among blocks[from..to]
SeparatorCount(blocks, from, to) ==
    Cardinality({k \in from..to : blocks[k] = Separator})

\* the blocks that are no separators, in order
RECURSIVE Fragments(_)
Fragments(blocks) ==
    IF blocks = <<>> THEN <<>>
    ELSE (IF Head(blocks) = Separator THEN <<>> ELSE <<Head(blocks)>>)
         \o Fragments(Tail(blocks))

\* between the header block and the closing slide, the blocks that are no
\* separators are the fragments of the slides, each under its slide's
\* heading, in source order
FragmentsInOrder(blocks, n) ==
    LET frags == Fragments(SubSeq(blocks, 2, Len(blocks) - 1))
    IN /\ Len(frags) = n
       /\ \A i \in 1..n :
            StartsWith(frags[i], <<"\n", "#", " ">> \o slides[i].title \o <<"\n">>)

\* C5 as stated: the blocks joined for N slides hold, after the header block
\* and before the closing slide, N slide separators and the closing
\* separator (N + 1 "---" blocks), and the fragments in source order.
C5_AsStated ==
    slidev_content # <<>> =>
      LET B == slidev_content
          N == Len(slides)
      IN /\ SeparatorCount(B, 2, Len(B) - 1) = N + 1
         /\ FragmentsInOrder(B, N)

\* C5, amended: the blocks hold one slide separator before every slide but
\* the first (N - 1 for N >= 1, none for N = 0) and the closing separator,
\* which is the block before the closing slide, and the fragments in source
\* order, the first right after the header block.
C5_Separators ==
    slidev_content # <<>> =>
      LET B == slidev_content
          N == Len(slides)
      IN /\ SeparatorCount(B, 2, Len(B) - 1) = (IF N = 0 THEN 0 ELSE N - 1) + 1
         /\ B[Len(B) - 1] = Separator
         /\ B[Len(B)] = add_closing_slide(Author)
         /\ B[1] # Separator
         /\ N >= 1 => B[2] # Separator
         /\ \A i \in 2..N : B[2 * i - 1] = Separator
         /\ FragmentsInOrder(B, N)

\* a conversion of a deck of two slides assembled its document
C5_Witness ==
    /\ pc = "done"
    /\ entry \in ConvertEntries
    /\ raised = "none"
    /\ Len(slides) = 2
    /\ Len(slidev_content) = 6

\* the blobs of the picture shapes of a slide that can be read, in order
RECURSIVE ReadableBlobs(_, _, _)
ReadableBlobs(s, slide_num, i) ==
    IF i > Len(s.shapes) THEN <<>>
    ELSE (IF s.shapes[i].kind = "picture" /\ s.shapes[i].image = "ok"
             /\ s.shapes[i].blob = "ok"
          THEN <<(<<ToString(slide_num + 1), ToString(i)>>)>> ELSE <<>>)
         \o ReadableBlobs(s, slide_num, i + 1)

ImageData(images) == [k \in 1..Len(images) |-> images[k].image_data]

\* C6: a failure to read one picture shape is contained to that picture:
\* parse_powerpoint_slide still returns a slide, and the images it stages and
\* references are those of the other picture shapes, in shape order; a
\* conversion never fails because of it.
C6_ImageFailureContained ==
    /\ direct.fn = "parse_powerpoint_slide" =>
         /\ direct.result.raised = "none"
         /\ ImageData(direct.result.staged) =
              ReadableBlobs(direct.arg, direct.slide_num, 1)
         /\ Len(direct.result.slide.images) = Len(direct.result.staged)
    /\ \A k \in 1..Len(calls) : calls[k].exc # "ValueError"

RECURSIVE OkValues(_)
\* the values the conversions that returned returned, in order
OkValues(cs) ==
    IF cs = <<>> THEN <<>>
    ELSE (IF Head(cs).exc = "none" THEN <<Head(cs).value>> ELSE <<>>)
         \o OkValues(Tail(cs))

RECURSIVE FailedFiles(_)
\* the files whose conversion raised, in order
FailedFiles(cs) ==
    IF cs = <<>> THEN <<>>
    ELSE (IF Head(cs).exc # "none" THEN <<Head(cs).file>> ELSE <<>>)
         \o FailedFiles(Tail(cs))

\* C7: under batch_convert_powerpoints, results holds the path of every
\* conversion that returned, in processing order, and nothing else; one
\* failure is printed for every conversion that raised; and when the batch
\* returns, every file found was processed, in order, and the batch returned
\* results without raising.
C7_BatchIsolation ==
    entry = "batch" =>
      /\ results = OkValues(calls)
      /\ [k \in 1..Len(errors) |-> errors[k].file] = FailedFiles(calls)
      /\ \A k \in 1..Len(calls) : calls[k].file = k
      /\ pc = "done" =>
           /\ Len(calls) = pptx_files
           /\ raised = "none"
           /\ returned = results

\* a batch of three decks, the second failing, returned two paths and
\* printed one failure
C7_Witness ==
    /\ entry = "batch"
    /\ pc = "done"
    /\ pptx_files = 3
    /\ Len(calls) = 3
    /\ calls[1].exc = "none"
    /\ calls[2].exc # "none"
    /\ calls[3].exc = "none"
    /\ Len(returned) = 2
    /\ Len(errors) = 1

DeckEntries == ConvertEntries \cup {"extract_from_powerpoint", "batch"}

\* C8: without python-pptx, a call of any deck entry point (the batch: on a
\* directory with a deck in it) ends with ImportError raised to the caller,
\* and no directory or file made.
C8_MissingBackendPropagates ==
    (~PPTX_AVAILABLE /\ pc = "done" /\ entry \in DeckEntries
       /\ (entry = "batch" => pptx_files >= 1)) =>
      /\ raised = "ImportError"
      /\ ~fs_touched

RECURSIVE Backslashes(_, _)
\* the number of backslashes right before position k of v
Backslashes(v, k) ==
    IF k > 1 /\ v[k - 1] = "\\" THEN 1 + Backslashes(v, k - 1) ELSE 0

\* v is one double-quoted string: a quote at each end, and every quote in
\* between escaped by a backslash
SafelyQuoted(v) ==
    /\ Len(v) >= 2
    /\ v[1] = "\""
    /\ v[Len(v)] = "\""
    /\ Backslashes(v, Len(v)) % 2 = 0
    /\ \A k \in 2..(Len(v) - 1) : v[k] = "\"" => Backslashes(v, k) % 2 = 1

\* the value of the title field of a header block
TitleValue(header) ==
    LET lines == SplitOn(header, "\n", <<>>)
        k == CHOOSE j \in 1..Len(lines) :
               lines[j] # <<>> /\ Head(lines[j]) = "title: "
    IN Tail(lines[k])

\* C9: the title field generate_frontmatter emits is one safely quoted
\* string, whatever the title: no unescaped double quote between its opening
\* and its closing quote.
C9_TitleSafelyQuoted ==
    direct.fn = "generate_frontmatter" => SafelyQuoted(TitleValue(direct.result))

\* the positions of the line breaks of a text, and its two ends
Breaks(text) == {0, Len(text) + 1} \cup {k \in 1..Len(text) : text[k] = "\n"}

\* the set of the non-empty lines of a text
LineSet(text) ==
    {SubSeq(text, a + 1, b - 1) : <<a, b>> \in
       {x \in Breaks(text) \X Breaks(text) :
          x[1] + 1 < x[2] /\ \A k \in (x[1] + 1)..(x[2] - 1) : k \notin Breaks(text)}}

\* the file names the img tags of a document refer to
Referenced(doc) ==
    {SubSeq(l, 2, Len(l) - 1) : l \in {m \in LineSet(doc) : Head(m) = "<img src=\"./"}}

\* C10: after a conversion that returned, every content entry of every
\* extracted slide is a list line of slides.md, every image reference of
\* every slide is an img tag of it, and the image files written are the
\* files the document refers to (no write of an image file having failed).
C10_NothingLost ==
    (pc = "done" /\ entry \in ConvertEntries /\ raised = "none"
       /\ Cardinality(written_images) = Len(temp_images)) =>
      LET doc == LineSet(slides_md.content)
      IN /\ \A i \in 1..Len(slides) :
              /\ \A k \in 1..Len(slides[i].content) :
                   ListLine(slides[i].content[k]) \in doc
              /\ \A k \in 1..Len(slides[i].images) :
                   ImgLine(slides[i].images[k]) \in doc
         /\ {w.name : w \in written_images} = Referenced(slides_md.content)

====
